---- MODULE Spec2Model ----
(***************************************************************************)
(* Elimination of a cluster forest into a Bayes tree                       *)
(* (gtsam/inference/ClusterTree-inst.h): ClusterTree::eliminate builds a   *)
(* new tree, ClusterTree::eliminateInPlace re-eliminates into the cliques  *)
(* of an existing tree.  Pointers are modelled as tagged pairs, the heap   *)
(* of cliques as the function nodes, the traversal contexts as the         *)
(* function data.                                                          *)
(***************************************************************************)
EXTENDS Integers, Sequences, FiniteSets, TLC

VARIABLES
  clusterTree,  \* *this: roots_, remainingFactors_ and the clusters
  function,     \* the Eliminate argument, as far as it has been called:
                \* order -> whether the remaining factor it returns is empty
  nodes,        \* heap of BayesTree cliques: pointer -> clique
  data,         \* the EliminationData of the running traversal: pointer -> context
  visit,        \* traversal position of each cluster
  pc,           \* the entry point being executed, or "idle"
  outcome,      \* how each entry point ended
  exception,    \* the exception in flight, Null when none
  result,       \* the BayesTree made by eliminate: roots_ and nodes_
  returned,     \* the remaining factors each entry point returned
  bayesTree,    \* the BayesTree argument of eliminateInPlace
  elimCalls,    \* log of the calls of the elimination function, per entry point
  atCall,       \* the heap of cliques as it was when the running entry point was called
  outOfRange    \* an out-of-range read of a children vector has happened

vars == <<clusterTree, function, nodes, data, visit, pc, outcome, exception,
          result, returned, bayesTree, elimCalls, atCall, outOfRange>>

----------------------------------------------------------------------------
(* Bounds of the model *)

MaxClusters == 3
MaxOrphans == 1
MaxMissing == 1

(* problemSizeThreshold passed to DepthFirstForestParallel *)
Threshold == 10

ProblemSizes == {Threshold - 1, Threshold}

----------------------------------------------------------------------------
(* Pointers *)

Null == <<"null", 0>>
DataOf(c) == <<"data", c>>
RootsContainer == <<"data", 0>>
NewNode(c) == <<"new", c>>
OldNode(c) == <<"old", c>>
OrphanNode(k) == <<"orphan", k>>
OrphanChild(k) == <<"orphanchild", k>>
DummyNode == <<"dummy", 0>>
RootsBayesTreeNode == <<"dummy", 1>>

----------------------------------------------------------------------------
(* Factors, conditionals, cliques *)

NullFactor == [kind |-> "null", id |-> <<>>, from |-> <<>>, empty |-> TRUE]
Factor(c, j) == [kind |-> "factor", id |-> <<c, j>>, from |-> <<>>, empty |-> FALSE]
OrphanWrapper(k) == [kind |-> "orphan", id |-> <<k>>, from |-> <<>>, empty |-> FALSE]
IsOrphanWrapper(f) == f.kind = "orphan"
WrappedClique(f) == OrphanNode(f.id[1])

KeysOf(c) == <<2 * c, 2 * c - 1>>

(* The conditional a clique that exists before the call holds: made by an *)
(* earlier elimination, from factors that are not those of the forest     *)
OldFrontals(q) ==
  IF q[1] = "old" THEN KeysOf(q[2])
  ELSE IF q[1] = "orphan" THEN <<2 * (MaxClusters + q[2])>>
  ELSE <<2 * (MaxClusters + q[2]) - 1>>
NullConditional == [frontals_ |-> <<>>, factors |-> <<>>]
OldConditional(q) == [frontals_ |-> OldFrontals(q), factors |-> <<Factor(0, q[2])>>]

Node(cond, size, parent, children) ==
  [conditional_ |-> cond, problemSize_ |-> size, parent_ |-> parent, children |-> children]
EmptyNode == Node(NullConditional, 0, Null, <<>>)

Range(s) == {s[i] : i \in 1..Len(s)}

RECURSIVE SortedSeq(_)
SortedSeq(S) ==
  IF S = {} THEN <<>>
  ELSE LET m == CHOOSE x \in S : \A y \in S : x <= y
       IN <<m>> \o SortedSeq(S \ {m})

----------------------------------------------------------------------------
(* The cluster forest *)

(* The forests of n clusters, numbered in pre-order: the parent of a cluster *)
(* is no cluster (0), the cluster before it, or an ancestor of that one.     *)
RECURSIVE IsAncestorOrSelf(_, _, _)
IsAncestorOrSelf(p, a, c) ==
  IF c = 0 THEN FALSE ELSE a = c \/ IsAncestorOrSelf(p, a, p[c])

ParentMaps(n) ==
  {p \in [1..n -> 0..(n - 1)] :
     \A i \in 1..n : p[i] = 0 \/ (p[i] < i /\ IsAncestorOrSelf(p, p[i], i - 1))}

(* The problem sizes a cluster may have: on either side of the threshold *)
(* for a cluster with children, below it for a leaf, where the size      *)
(* decides nothing.                                                      *)
SizeMaps(n, p) ==
  {size \in [1..n -> ProblemSizes] :
     \A c \in 1..n : (\A i \in 1..n : p[i] # c) => size[c] = Threshold - 1}

Cluster(c, n, p, place, size) ==
  [keys |-> KeysOf(c),
   factors |-> <<Factor(c, 1)>> \o
               [i \in 1..Len(SortedSeq({k \in 1..MaxOrphans : place[k] = c})) |->
                  OrphanWrapper(SortedSeq({k \in 1..MaxOrphans : place[k] = c})[i])],
   children |-> SortedSeq({i \in 1..n : p[i] = c}),
   problemSize_ |-> size[c]]

MakeClusterTree(n, p, place, size) ==
  [roots_ |-> SortedSeq({i \in 1..n : p[i] = 0}),
   remainingFactors_ |-> <<Factor(0, 0)>>,
   cluster |-> [c \in 1..n |-> Cluster(c, n, p, place, size)]]

Clusters == DOMAIN clusterTree.cluster
ClusterChildren(p) == IF p = 0 THEN clusterTree.roots_ ELSE clusterTree.cluster[p].children
ParentOf(c) == CHOOSE up \in {0} \cup Clusters : c \in Range(ClusterChildren(up))
IndexIn(s, x) == CHOOSE i \in 1..Len(s) : s[i] = x

(* The orphan subtrees that exist before any call: a clique with one child *)
OrphanHeap ==
  [q \in {OrphanNode(k) : k \in 1..MaxOrphans} \cup {OrphanChild(k) : k \in 1..MaxOrphans} |->
     IF q[1] = "orphan"
       THEN Node(OldConditional(q), Threshold, Null, <<OrphanChild(q[2])>>)
       ELSE Node(OldConditional(q), Threshold - 1, OrphanNode(q[2]), <<>>)]

EmptyMap == [x \in {} |-> Null]

Init ==
  \E n \in 1..MaxClusters :
    \E p \in ParentMaps(n), place \in [1..MaxOrphans -> 0..n] :
     \E size \in SizeMaps(n, p) :
      /\ clusterTree = MakeClusterTree(n, p, place, size)
      /\ function = EmptyMap
      /\ nodes = OrphanHeap
      /\ data = EmptyMap
      /\ visit = [c \in 1..n |-> "unvisited"]
      /\ pc = "idle"
      /\ outcome = [eliminate |-> "none", eliminateInPlace |-> "none"]
      /\ exception = Null
      /\ result = [roots_ |-> <<>>, nodes_ |-> EmptyMap]
      /\ returned = [eliminate |-> <<>>, eliminateInPlace |-> <<>>]
      /\ bayesTree = [roots_ |-> <<>>, nodes_ |-> EmptyMap]
      /\ elimCalls = [e \in {"eliminate", "eliminateInPlace"} |-> [c \in 1..n |-> <<>>]]
      /\ atCall = OrphanHeap
      /\ outOfRange = FALSE

----------------------------------------------------------------------------
(* Elimination traversal data *)

Mem(d, n) == [data |-> d, nodes |-> n]

(* A constructor that sets the parent pointer and leaves the parent's *)
(* children as they are                                              *)
EliminationDataSetsParentOnly(mem, self, parentData, newNode) ==
  LET hasParent == parentData # Null
      myIndexInParent == IF hasParent THEN Len(mem.data[parentData].childFactors) ELSE 0
      d1 == IF hasParent
              THEN [mem.data EXCEPT ![parentData].childFactors = Append(@, NullFactor)]
              ELSE mem.data
      n0 == (newNode :> EmptyNode) @@ mem.nodes
      n1 == IF hasParent /\ mem.data[parentData].parentData # Null
              THEN [n0 EXCEPT ![newNode].parent_ = mem.data[parentData].bayesTreeNode]
              ELSE n0
  IN Mem((self :> [parentData |-> parentData, myIndexInParent |-> myIndexInParent,
                   childFactors |-> <<>>, bayesTreeNode |-> newNode]) @@ d1,
         n1)

(* A constructor that takes slot 0 of its parent whatever slots there are *)
EliminationDataIndexZero(mem, self, parentData, newNode) ==
  LET hasParent == parentData # Null
      d1 == IF hasParent
              THEN [mem.data EXCEPT ![parentData].childFactors = Append(@, NullFactor)]
              ELSE mem.data
      n0 == (newNode :> EmptyNode) @@ mem.nodes
      n1 == IF hasParent /\ mem.data[parentData].parentData # Null
              THEN [n0 EXCEPT ![newNode].parent_ = mem.data[parentData].bayesTreeNode]
              ELSE n0
      n2 == IF hasParent
              THEN [n1 EXCEPT ![mem.data[parentData].bayesTreeNode].children = Append(@, newNode)]
              ELSE n1
  IN Mem((self :> [parentData |-> parentData, myIndexInParent |-> 0,
                   childFactors |-> <<>>, bayesTreeNode |-> newNode]) @@ d1,
         n2)

(* A constructor that links the clique of a forest root to the dummy clique *)
EliminationDataLinksDummy(mem, self, parentData, newNode) ==
  LET hasParent == parentData # Null
      myIndexInParent == IF hasParent THEN Len(mem.data[parentData].childFactors) ELSE 0
      d1 == IF hasParent
              THEN [mem.data EXCEPT ![parentData].childFactors = Append(@, NullFactor)]
              ELSE mem.data
      n0 == (newNode :> EmptyNode) @@ mem.nodes
      n1 == IF hasParent
              THEN [n0 EXCEPT ![newNode].parent_ = mem.data[parentData].bayesTreeNode]
              ELSE n0
      n2 == IF hasParent
              THEN [n1 EXCEPT ![mem.data[parentData].bayesTreeNode].children = Append(@, newNode)]
              ELSE n1
  IN Mem((self :> [parentData |-> parentData, myIndexInParent |-> myIndexInParent,
                   childFactors |-> <<>>, bayesTreeNode |-> newNode]) @@ d1,
         n2)

(* A constructor that puts the new clique in front of its parent's children *)
EliminationDataPushFront(mem, self, parentData, newNode) ==
  LET hasParent == parentData # Null
      myIndexInParent == IF hasParent THEN Len(mem.data[parentData].childFactors) ELSE 0
      d1 == IF hasParent
              THEN [mem.data EXCEPT ![parentData].childFactors = Append(@, NullFactor)]
              ELSE mem.data
      n0 == (newNode :> EmptyNode) @@ mem.nodes
      n1 == IF hasParent /\ mem.data[parentData].parentData # Null
              THEN [n0 EXCEPT ![newNode].parent_ = mem.data[parentData].bayesTreeNode]
              ELSE n0
      n2 == IF hasParent
              THEN [n1 EXCEPT ![mem.data[parentData].bayesTreeNode].children = <<newNode>> \o @]
              ELSE n1
  IN Mem((self :> [parentData |-> parentData, myIndexInParent |-> myIndexInParent,
                   childFactors |-> <<>>, bayesTreeNode |-> newNode]) @@ d1,
         n2)

(* EliminationData constructor; nChildren only reserves capacity.  self is *)
(* the address of the constructed object, newNode that of the clique made  *)
(* by make_shared.                                                         *)
EliminationData(mem, self, parentData, newNode) ==
  LET hasParent == parentData # Null
      myIndexInParent == IF hasParent THEN Len(mem.data[parentData].childFactors) ELSE 0
      d1 == IF hasParent
              THEN [mem.data EXCEPT ![parentData].childFactors = Append(@, NullFactor)]
              ELSE mem.data
      n0 == (newNode :> EmptyNode) @@ mem.nodes
      n1 == IF hasParent /\ mem.data[parentData].parentData # Null
              THEN [n0 EXCEPT ![newNode].parent_ = mem.data[parentData].bayesTreeNode]
              ELSE n0
      n2 == IF hasParent
              THEN [n1 EXCEPT ![mem.data[parentData].bayesTreeNode].children = Append(@, newNode)]
              ELSE n1
  IN Mem((self :> [parentData |-> parentData, myIndexInParent |-> myIndexInParent,
                   childFactors |-> <<>>, bayesTreeNode |-> newNode]) @@ d1,
         n2)

(* The vector read parentData->bayesTreeNode->children[myIndexInParent]: *)
(* whether the index is inside the vector, and the element when it is.   *)
ChildrenInRange(mem, parentData) ==
  Len(mem.data[parentData].childFactors)
    < Len(mem.nodes[mem.data[parentData].bayesTreeNode].children)

(* A read of the first child whatever the index *)
ChildrenAtFront(mem, parentData) ==
  mem.nodes[mem.data[parentData].bayesTreeNode].children[1]

ChildrenAt(mem, parentData) ==
  mem.nodes[mem.data[parentData].bayesTreeNode].children[Len(mem.data[parentData].childFactors) + 1]

(* An in-place constructor that reserves no slot in its parent *)
EliminationDataInPlaceWithoutSlot(mem, self, parentData, readNode) ==
  LET hasParent == parentData # Null
      myIndexInParent == IF hasParent THEN Len(mem.data[parentData].childFactors) ELSE 0
  IN Mem((self :> [parentData |-> parentData, myIndexInParent |-> myIndexInParent,
                   childFactors |-> <<>>,
                   bayesTreeNode |-> IF hasParent THEN readNode ELSE Null]) @@ mem.data,
         mem.nodes)

(* An in-place constructor that links the clique it found, as the *)
(* allocating one does                                            *)
EliminationDataInPlaceLinks(mem, self, parentData, readNode) ==
  LET hasParent == parentData # Null
      myIndexInParent == IF hasParent THEN Len(mem.data[parentData].childFactors) ELSE 0
      d1 == IF hasParent
              THEN [mem.data EXCEPT ![parentData].childFactors = Append(@, NullFactor)]
              ELSE mem.data
  IN Mem((self :> [parentData |-> parentData, myIndexInParent |-> myIndexInParent,
                   childFactors |-> <<>>,
                   bayesTreeNode |-> IF hasParent THEN readNode ELSE Null]) @@ d1,
         IF hasParent
           THEN [mem.nodes EXCEPT ![mem.data[parentData].bayesTreeNode].children =
                                     Append(@, readNode)]
           ELSE mem.nodes)

(* EliminationDataInPlace constructor; readNode is the value the vector  *)
(* read gave (unused, and bayesTreeNode left unset, without a parent).   *)
EliminationDataInPlace(mem, self, parentData, readNode) ==
  LET hasParent == parentData # Null
      myIndexInParent == IF hasParent THEN Len(mem.data[parentData].childFactors) ELSE 0
      d1 == IF hasParent
              THEN [mem.data EXCEPT ![parentData].childFactors = Append(@, NullFactor)]
              ELSE mem.data
  IN Mem((self :> [parentData |-> parentData, myIndexInParent |-> myIndexInParent,
                   childFactors |-> <<>>,
                   bayesTreeNode |-> IF hasParent THEN readNode ELSE Null]) @@ d1,
         mem.nodes)

(* eliminationPreOrderVisitor: myData is the constructed context *)
eliminationPreOrderVisitor(mem, c) ==
  Mem(mem.data,
      [mem.nodes EXCEPT ![mem.data[DataOf(c)].bayesTreeNode].problemSize_ =
                           clusterTree.cluster[c].problemSize_])

----------------------------------------------------------------------------
(* The post-order step *)

(* FactorGraph::operator+= of a container of factor pointers *)
FactorGraphPlus(graph, container) ==
  graph \o SelectSeq(container, LAMBDA f : f # NullFactor)

Ordering(keys) == keys

(* The injected elimination function fn, where it returns: the conditional *)
(* on the ordered variables and the remaining factor, both determined by   *)
(* the arguments.                                                          *)
Eliminate(fn, factors, order) ==
  [first |-> [frontals_ |-> order, factors |-> factors],
   second |-> [kind |-> "remaining", id |-> order, from |-> factors,
               empty |-> fn[order]]]

(* The function is opaque: what it does at an order is settled when it is *)
(* first called there, and is the same at every later call.               *)
Called(order, isEmpty) ==
  IF order \in DOMAIN function THEN function ELSE (order :> isEmpty) @@ function

(* Clique::setEliminationResult *)
setEliminationResult(heap, node, eliminationResult) ==
  [heap EXCEPT ![node].conditional_ = eliminationResult.first]

(* A gathering that takes the factors of the children first *)
gatheredFactorsChildrenFirst(mem, c) ==
  FactorGraphPlus(FactorGraphPlus(<<>>, mem.data[DataOf(c)].childFactors),
                  clusterTree.cluster[c].factors)

gatheredFactors(mem, c) ==
  FactorGraphPlus(FactorGraphPlus(<<>>, clusterTree.cluster[c].factors),
                  mem.data[DataOf(c)].childFactors)

(* A helper that stores the remaining factor in the first slot of the *)
(* parent that is still null                                          *)
HelperPublishesInFirstNullSlot(eliminationFunction, mem, c) ==
  LET myData == mem.data[DataOf(c)]
      slots == mem.data[myData.parentData].childFactors
      free == CHOOSE i \in 1..Len(slots) :
                slots[i] = NullFactor /\ \A j \in 1..(i - 1) : slots[j] # NullFactor
      eliminationResult ==
        Eliminate(eliminationFunction,
                  FactorGraphPlus(FactorGraphPlus(<<>>, clusterTree.cluster[c].factors),
                                  mem.data[DataOf(c)].childFactors),
                  Ordering(clusterTree.cluster[c].keys))
  IN Mem(IF ~eliminationResult.second.empty
           THEN [mem.data EXCEPT ![myData.parentData].childFactors[free] =
                                   eliminationResult.second]
           ELSE mem.data,
         setEliminationResult(mem.nodes, myData.bayesTreeNode, eliminationResult))

(* A helper that stores the remaining factor whether it is empty or not *)
HelperPublishesEmptyFactor(eliminationFunction, mem, c) ==
  LET myData == mem.data[DataOf(c)]
      eliminationResult ==
        Eliminate(eliminationFunction,
                  FactorGraphPlus(FactorGraphPlus(<<>>, clusterTree.cluster[c].factors),
                                  mem.data[DataOf(c)].childFactors),
                  Ordering(clusterTree.cluster[c].keys))
  IN Mem([mem.data EXCEPT ![myData.parentData].childFactors[myData.myIndexInParent + 1] =
                            eliminationResult.second],
         setEliminationResult(mem.nodes, myData.bayesTreeNode, eliminationResult))

(* A helper that stores the remaining factor in the parent's first slot *)
HelperPublishesInFirstSlot(eliminationFunction, mem, c) ==
  LET myData == mem.data[DataOf(c)]
      eliminationResult ==
        Eliminate(eliminationFunction, gatheredFactors(mem, c),
                  Ordering(clusterTree.cluster[c].keys))
  IN Mem(IF ~eliminationResult.second.empty
           THEN [mem.data EXCEPT ![myData.parentData].childFactors[1] =
                                   eliminationResult.second]
           ELSE mem.data,
         setEliminationResult(mem.nodes, myData.bayesTreeNode, eliminationResult))

(* A helper that sets the elimination result in the parent's clique *)
HelperStoresInParentClique(eliminationFunction, mem, c) ==
  LET myData == mem.data[DataOf(c)]
      eliminationResult ==
        Eliminate(eliminationFunction, gatheredFactors(mem, c),
                  Ordering(clusterTree.cluster[c].keys))
  IN Mem(IF ~eliminationResult.second.empty
           THEN [mem.data EXCEPT ![myData.parentData].childFactors[myData.myIndexInParent + 1] =
                                   eliminationResult.second]
           ELSE mem.data,
         setEliminationResult(mem.nodes, mem.data[myData.parentData].bayesTreeNode,
                              eliminationResult))

(* eliminationPostOrderVisitorHelper, when the elimination function returns *)
eliminationPostOrderVisitorHelper(eliminationFunction, mem, c) ==
  LET myData == mem.data[DataOf(c)]
      eliminationResult ==
        Eliminate(eliminationFunction, gatheredFactors(mem, c),
                  Ordering(clusterTree.cluster[c].keys))
  IN Mem(IF ~eliminationResult.second.empty
           THEN [mem.data EXCEPT ![myData.parentData].childFactors[myData.myIndexInParent + 1] =
                                   eliminationResult.second]
           ELSE mem.data,
         setEliminationResult(mem.nodes, myData.bayesTreeNode, eliminationResult))

(* A loop that appends the orphan and leaves its parent pointer as it was *)
RECURSIVE AttachOrphansWithoutParent(_, _, _, _)
AttachOrphansWithoutParent(heap, factors, i, myNode) ==
  IF i > Len(factors) THEN heap
  ELSE IF IsOrphanWrapper(factors[i])
    THEN AttachOrphansWithoutParent(
           [heap EXCEPT ![myNode].children = Append(@, WrappedClique(factors[i]))],
           factors, i + 1, myNode)
    ELSE AttachOrphansWithoutParent(heap, factors, i + 1, myNode)

(* A loop that puts the orphan in front of the children of the clique *)
RECURSIVE AttachOrphansInFront(_, _, _, _)
AttachOrphansInFront(heap, factors, i, myNode) ==
  IF i > Len(factors) THEN heap
  ELSE IF IsOrphanWrapper(factors[i])
    THEN AttachOrphansInFront(
           [heap EXCEPT ![myNode].children = <<WrappedClique(factors[i])>> \o @,
                        ![WrappedClique(factors[i])].parent_ = myNode],
           factors, i + 1, myNode)
    ELSE AttachOrphansInFront(heap, factors, i + 1, myNode)

(* The loop over node->factors of EliminationPostOrderVisitor, from factor i on *)
RECURSIVE AttachOrphans(_, _, _, _)
AttachOrphans(heap, factors, i, myNode) ==
  IF i > Len(factors) THEN heap
  ELSE IF IsOrphanWrapper(factors[i])
    THEN AttachOrphans(
           [heap EXCEPT ![myNode].children = Append(@, WrappedClique(factors[i])),
                        ![WrappedClique(factors[i])].parent_ = myNode],
           factors, i + 1, myNode)
    ELSE AttachOrphans(heap, factors, i + 1, myNode)

(* An index filling that inserts the first frontal variable only *)
FillNodesIndexFirstOnly(nodesIndex, frontals, i, myNode) ==
  IF i > Len(frontals) THEN nodesIndex
  ELSE nodesIndex @@ (frontals[i] :> myNode)

(* nodesIndex.insert for each frontal variable, from frontal i on; insert *)
(* keeps an entry that is already there.                                  *)
RECURSIVE FillNodesIndex(_, _, _, _)
FillNodesIndex(nodesIndex, frontals, i, myNode) ==
  IF i > Len(frontals) THEN nodesIndex
  ELSE FillNodesIndex(nodesIndex @@ (frontals[i] :> myNode), frontals, i + 1, myNode)

(* EliminationPostOrderVisitor::operator(): the memory after it *)
EliminationPostOrderVisitor(eliminationFunction, mem, c) ==
  LET after == eliminationPostOrderVisitorHelper(eliminationFunction, mem, c)
  IN Mem(after.data,
         AttachOrphans(after.nodes, clusterTree.cluster[c].factors, 1,
                       mem.data[DataOf(c)].bayesTreeNode))

(* An orphan check that looks at the first factor only *)
FirstFactorIsOrphanWrapper(c) ==
  /\ Len(clusterTree.cluster[c].factors) > 0
  /\ IsOrphanWrapper(clusterTree.cluster[c].factors[1])

(* The orphan check of EliminationPostOrderVisitorInPlace::operator() *)
HasOrphanWrapper(c) ==
  \E i \in 1..Len(clusterTree.cluster[c].factors) :
    IsOrphanWrapper(clusterTree.cluster[c].factors[i])

----------------------------------------------------------------------------
(* treeTraversal::DepthFirstForestParallel: which visit may come next *)

(* The children of p are walked by concurrent workers *)
RECURSIVE Concurrent(_)
Concurrent(p) ==
  IF p = 0 THEN TRUE
  ELSE clusterTree.cluster[p].problemSize_ >= Threshold /\ Concurrent(ParentOf(p))

(* The worker of c has been started: in a concurrent region the parent *)
(* first visits all its children in pre-order, then forks.              *)
Forked(c) ==
  c # 0 /\ Concurrent(ParentOf(c)) =>
    \A s \in Range(ClusterChildren(ParentOf(c))) : visit[s] # "unvisited"

CanPreOrder(c) ==
  LET sib == ClusterChildren(ParentOf(c))
      i == IndexIn(sib, c)
  IN /\ visit[c] = "unvisited"
     /\ ParentOf(c) # 0 => visit[ParentOf(c)] = "pre"
     /\ Forked(ParentOf(c))
     /\ i > 1 => IF Concurrent(ParentOf(c)) THEN visit[sib[i - 1]] # "unvisited"
                 ELSE visit[sib[i - 1]] = "post"

CanPostOrder(c) ==
  /\ visit[c] = "pre"
  /\ Forked(c)
  /\ \A d \in Range(ClusterChildren(c)) : visit[d] = "post"

TraversalDone == \A r \in Range(clusterTree.roots_) : visit[r] = "post"

Running == pc \in {"eliminate", "eliminateInPlace"}

----------------------------------------------------------------------------
(* ClusterTree::eliminate *)

StartEliminate ==
  /\ pc = "idle"
  /\ outcome.eliminate = "none" /\ outcome.eliminateInPlace = "none"
  /\ pc' = "eliminate"
  /\ LET mem == EliminationData(Mem(EmptyMap, nodes), RootsContainer, Null, DummyNode)
     IN /\ data' = mem.data
        /\ nodes' = mem.nodes
  /\ result' = [roots_ |-> <<>>, nodes_ |-> EmptyMap]
  /\ visit' = [c \in Clusters |-> "unvisited"]
  /\ atCall' = nodes
  /\ UNCHANGED <<clusterTree, function, outcome, exception, returned, bayesTree,
                 elimCalls, outOfRange>>

PreOrderEliminate(c) ==
  /\ pc = "eliminate"
  /\ CanPreOrder(c)
  /\ LET made == EliminationData(Mem(data, nodes), DataOf(c), DataOf(ParentOf(c)), NewNode(c))
         mem == eliminationPreOrderVisitor(made, c)
     IN /\ data' = mem.data
        /\ nodes' = mem.nodes
  /\ visit' = [visit EXCEPT ![c] = "pre"]
  /\ UNCHANGED <<clusterTree, function, pc, outcome, exception, result, returned,
                 bayesTree, elimCalls, atCall, outOfRange>>

LogCall(c) ==
  [elimCalls EXCEPT ![pc][c] = Append(@, gatheredFactors(Mem(data, nodes), c))]

PostOrderEliminate(c) ==
  /\ pc = "eliminate"
  /\ CanPostOrder(c)
  /\ \E isEmpty \in BOOLEAN : function' = Called(clusterTree.cluster[c].keys, isEmpty)
  /\ LET mem == EliminationPostOrderVisitor(function', Mem(data, nodes), c)
         myNode == data[DataOf(c)].bayesTreeNode
     IN /\ data' = mem.data
        /\ nodes' = mem.nodes
        /\ result' = [result EXCEPT !.nodes_ =
                        FillNodesIndex(@, mem.nodes[myNode].conditional_.frontals_, 1, myNode)]
  /\ visit' = [visit EXCEPT ![c] = "post"]
  /\ elimCalls' = LogCall(c)
  /\ UNCHANGED <<clusterTree, pc, outcome, exception, returned, bayesTree,
                 atCall, outOfRange>>

(* The elimination function throws, which it may where it has not returned *)
(* before: the visitor is left at line 125                                 *)
EliminationThrows(c) ==
  /\ Running
  /\ CanPostOrder(c)
  /\ pc = "eliminateInPlace" => ~HasOrphanWrapper(c)
  /\ clusterTree.cluster[c].keys \notin DOMAIN function
  /\ visit' = [visit EXCEPT ![c] = "failed"]
  /\ elimCalls' = LogCall(c)
  /\ exception' = IF exception = Null THEN <<"EliminationError", c>> ELSE exception
  /\ UNCHANGED <<clusterTree, function, nodes, data, pc, outcome, result, returned,
                 bayesTree, atCall, outOfRange>>

(* A merge that copies every slot of the roots container, null or not *)
AllRemainingFactorsWithNullSlots ==
  clusterTree.remainingFactors_ \o data[RootsContainer].childFactors

(* A merge that leaves out the remaining factors of the forest *)
AllRemainingFactorsOfRootsOnly ==
  SelectSeq(data[RootsContainer].childFactors, LAMBDA factor : factor # NullFactor)

AllRemainingFactors ==
  clusterTree.remainingFactors_
    \o SelectSeq(data[RootsContainer].childFactors, LAMBDA factor : factor # NullFactor)

(* An entry point that moves the remaining factors out of the forest *)
FinishEliminateTakesRemainingFactors ==
  /\ pc = "eliminate"
  /\ exception = Null
  /\ TraversalDone
  /\ result' = [result EXCEPT !.roots_ = @ \o nodes[data[RootsContainer].bayesTreeNode].children]
  /\ returned' = [returned EXCEPT !.eliminate =
                    clusterTree.remainingFactors_
                      \o SelectSeq(data[RootsContainer].childFactors,
                                   LAMBDA factor : factor # NullFactor)]
  /\ clusterTree' = [clusterTree EXCEPT !.remainingFactors_ = <<>>]
  /\ outcome' = [outcome EXCEPT !.eliminate = "returned"]
  /\ pc' = "idle"
  /\ UNCHANGED <<function, nodes, data, visit, exception, bayesTree,
                 elimCalls, atCall, outOfRange>>

(* An entry point that swallows the exception of the traversal *)
FinishEliminateDespiteException ==
  /\ pc = "eliminate"
  /\ exception # Null \/ TraversalDone
  /\ result' = [result EXCEPT !.roots_ = @ \o nodes[data[RootsContainer].bayesTreeNode].children]
  /\ returned' = [returned EXCEPT !.eliminate = AllRemainingFactors]
  /\ outcome' = [outcome EXCEPT !.eliminate = "returned"]
  /\ pc' = "idle"
  /\ UNCHANGED <<clusterTree, function, nodes, data, visit, exception, bayesTree,
                 elimCalls, atCall, outOfRange>>

FinishEliminate ==
  /\ pc = "eliminate"
  /\ exception = Null
  /\ TraversalDone
  /\ result' = [result EXCEPT !.roots_ = @ \o nodes[data[RootsContainer].bayesTreeNode].children]
  /\ returned' = [returned EXCEPT !.eliminate = AllRemainingFactors]
  /\ outcome' = [outcome EXCEPT !.eliminate = "returned"]
  /\ pc' = "idle"
  /\ UNCHANGED <<clusterTree, function, nodes, data, visit, exception, bayesTree,
                 elimCalls, atCall, outOfRange>>

----------------------------------------------------------------------------
(* ClusterTree::eliminateInPlace *)

(* The caller first builds a tree with eliminate and then re-eliminates *)
(* the forest into an existing tree.                                    *)
(* A BayesTree the caller passes: cliques for the clusters 1..m, linked as *)
(* the clusters are, holding the results of an earlier elimination.  It    *)
(* lacks the cliques of the last clusters when m is less than their number.*)
ExistingSizes ==
  {m \in 0..Cardinality(Clusters) : Cardinality(Clusters) - m <= MaxMissing}

ExistingHeap(m) ==
  [q \in {OldNode(c) : c \in 1..m} |->
     Node(OldConditional(q), 0,
          IF ParentOf(q[2]) = 0 THEN Null ELSE OldNode(ParentOf(q[2])),
          [i \in 1..Len(SelectSeq(ClusterChildren(q[2]), LAMBDA d : d <= m)) |->
             OldNode(ClusterChildren(q[2])[i])])]

ExistingTree(m) ==
  [roots_ |-> [i \in 1..Len(SelectSeq(clusterTree.roots_, LAMBDA r : r <= m)) |->
                 OldNode(clusterTree.roots_[i])],
   nodes_ |-> [j \in UNION {Range(KeysOf(c)) : c \in 1..m} |-> OldNode((j + 1) \div 2)]]

StartEliminateInPlace(m) ==
  /\ pc = "idle"
  /\ outcome.eliminateInPlace = "none" /\ outcome.eliminate = "returned"
  /\ pc' = "eliminateInPlace"
  /\ bayesTree' = ExistingTree(m)
  /\ atCall' = ExistingHeap(m) @@ nodes
  /\ LET made == EliminationDataInPlace(Mem(EmptyMap, atCall'), RootsContainer, Null, Null)
     IN /\ data' = [made.data EXCEPT ![RootsContainer].bayesTreeNode = RootsBayesTreeNode]
        /\ nodes' = (RootsBayesTreeNode :> Node(NullConditional, 0, Null, bayesTree'.roots_))
                      @@ made.nodes
  /\ visit' = [c \in Clusters |-> "unvisited"]
  /\ UNCHANGED <<clusterTree, function, outcome, exception, result, returned,
                 elimCalls, outOfRange>>

(* The caller re-eliminates the forest into the tree eliminate returned *)
StartEliminateInPlaceOnResult ==
  /\ pc = "idle"
  /\ outcome.eliminateInPlace = "none" /\ outcome.eliminate = "returned"
  /\ pc' = "eliminateInPlace"
  /\ bayesTree' = result
  /\ atCall' = nodes
  /\ LET made == EliminationDataInPlace(Mem(EmptyMap, nodes), RootsContainer, Null, Null)
     IN /\ data' = [made.data EXCEPT ![RootsContainer].bayesTreeNode = RootsBayesTreeNode]
        /\ nodes' = (RootsBayesTreeNode :> Node(NullConditional, 0, Null, bayesTree'.roots_))
                      @@ made.nodes
  /\ visit' = [c \in Clusters |-> "unvisited"]
  /\ UNCHANGED <<clusterTree, function, outcome, exception, result, returned,
                 elimCalls, outOfRange>>

PreOrderInPlace(c) ==
  /\ pc = "eliminateInPlace"
  /\ CanPreOrder(c)
  /\ ChildrenInRange(Mem(data, nodes), DataOf(ParentOf(c)))
  /\ LET made == EliminationDataInPlace(Mem(data, nodes), DataOf(c), DataOf(ParentOf(c)),
                                        ChildrenAt(Mem(data, nodes), DataOf(ParentOf(c))))
         mem == eliminationPreOrderVisitor(made, c)
     IN /\ data' = mem.data
        /\ nodes' = mem.nodes
  /\ visit' = [visit EXCEPT ![c] = "pre"]
  /\ UNCHANGED <<clusterTree, function, pc, outcome, exception, result, returned,
                 bayesTree, elimCalls, atCall, outOfRange>>

(* children[myIndexInParent] read past the end of the vector: undefined   *)
(* behaviour.  The read gives a wild pointer, which here is the address   *)
(* of some clique of the tree that was passed; the visitor writes         *)
(* problemSize_ through it, and what the process does from there on is    *)
(* not followed ...                                                       *)
PreOrderInPlaceWild(c) ==
  /\ pc = "eliminateInPlace"
  /\ CanPreOrder(c)
  /\ ~ChildrenInRange(Mem(data, nodes), DataOf(ParentOf(c)))
  /\ \E wild \in Range(bayesTree.nodes_) \cup {RootsBayesTreeNode} :
       LET made == EliminationDataInPlace(Mem(data, nodes), DataOf(c), DataOf(ParentOf(c)), wild)
           mem == eliminationPreOrderVisitor(made, c)
       IN /\ data' = mem.data
          /\ nodes' = mem.nodes
  /\ visit' = [visit EXCEPT ![c] = "pre"]
  /\ outOfRange' = TRUE
  /\ outcome' = [outcome EXCEPT !.eliminateInPlace = "undefined"]
  /\ pc' = "idle"
  /\ UNCHANGED <<clusterTree, function, exception, result, returned,
                 bayesTree, elimCalls, atCall>>

(* ... or the process dies on the read or on the write through it *)
PreOrderInPlaceCrash(c) ==
  /\ pc = "eliminateInPlace"
  /\ CanPreOrder(c)
  /\ ~ChildrenInRange(Mem(data, nodes), DataOf(ParentOf(c)))
  /\ outOfRange' = TRUE
  /\ outcome' = [outcome EXCEPT !.eliminateInPlace = "crashed"]
  /\ pc' = "idle"
  /\ UNCHANGED <<clusterTree, function, nodes, data, visit, exception, result, returned,
                 bayesTree, elimCalls, atCall>>

PostOrderInPlace(c) ==
  /\ pc = "eliminateInPlace"
  /\ CanPostOrder(c)
  /\ ~HasOrphanWrapper(c)
  /\ \E isEmpty \in BOOLEAN : function' = Called(clusterTree.cluster[c].keys, isEmpty)
  /\ LET mem == eliminationPostOrderVisitorHelper(function', Mem(data, nodes), c)
     IN /\ data' = mem.data
        /\ nodes' = mem.nodes
  /\ visit' = [visit EXCEPT ![c] = "post"]
  /\ elimCalls' = LogCall(c)
  /\ UNCHANGED <<clusterTree, pc, outcome, exception, result, returned,
                 bayesTree, atCall, outOfRange>>

(* The throw of EliminationPostOrderVisitorInPlace::operator() *)
OrphanInPlaceThrows(c) ==
  /\ pc = "eliminateInPlace"
  /\ CanPostOrder(c)
  /\ HasOrphanWrapper(c)
  /\ visit' = [visit EXCEPT ![c] = "failed"]
  /\ exception' = IF exception = Null THEN <<"RuntimeErrorThreadsafe", c>> ELSE exception
  /\ UNCHANGED <<clusterTree, function, nodes, data, pc, outcome, result, returned,
                 bayesTree, elimCalls, atCall, outOfRange>>

FinishEliminateInPlace ==
  /\ pc = "eliminateInPlace"
  /\ exception = Null
  /\ TraversalDone
  /\ returned' = [returned EXCEPT !.eliminateInPlace = AllRemainingFactors]
  /\ outcome' = [outcome EXCEPT !.eliminateInPlace = "returned"]
  /\ pc' = "idle"
  /\ UNCHANGED <<clusterTree, function, nodes, data, visit, exception, result, bayesTree,
                 elimCalls, atCall, outOfRange>>

(* The exception leaves the traversal and the entry point, once the *)
(* workers that run have come to their end                          *)
Rethrow ==
  /\ Running
  /\ exception # Null
  /\ \A c \in Clusters : ~CanPreOrder(c) /\ ~CanPostOrder(c)
  /\ outcome' = [outcome EXCEPT ![pc] = "threw"]
  /\ pc' = "idle"
  /\ UNCHANGED <<clusterTree, function, nodes, data, visit, exception, result, returned,
                 bayesTree, elimCalls, atCall, outOfRange>>

Next ==
  \/ StartEliminate
  \/ \E c \in Clusters : PreOrderEliminate(c)
  \/ \E c \in Clusters : PostOrderEliminate(c)
  \/ \E c \in Clusters : EliminationThrows(c)
  \/ FinishEliminate
  \/ \E m \in ExistingSizes : StartEliminateInPlace(m)
  \/ StartEliminateInPlaceOnResult
  \/ \E c \in Clusters : PreOrderInPlace(c)
  \/ \E c \in Clusters : PreOrderInPlaceWild(c)
  \/ \E c \in Clusters : PreOrderInPlaceCrash(c)
  \/ \E c \in Clusters : PostOrderInPlace(c)
  \/ \E c \in Clusters : OrphanInPlaceThrows(c)
  \/ FinishEliminateInPlace
  \/ Rethrow

Spec == Init /\ [][Next]_vars
----------------------------------------------------------------------------
(* What the claims speak of *)

(* The entry point that runs or ran last *)
Current ==
  IF pc = "eliminateInPlace" \/ outcome.eliminateInPlace # "none"
    THEN "eliminateInPlace" ELSE "eliminate"

(* What the elimination function returned to entry point e for cluster c *)
Produced(e, c) ==
  Eliminate(function, elimCalls[e][c][Len(elimCalls[e][c])], clusterTree.cluster[c].keys)

(* The context of cluster p, the roots container for 0 *)
ContextOf(p) == IF p = 0 THEN RootsContainer ELSE DataOf(p)

RECURSIVE Ancestors(_)
Ancestors(c) ==
  IF ParentOf(c) = 0 THEN {} ELSE {ParentOf(c)} \cup Ancestors(ParentOf(c))

RECURSIVE Flatten(_)
Flatten(ss) == IF Len(ss) = 0 THEN <<>> ELSE Head(ss) \o Flatten(Tail(ss))

Count(x, seq) == Cardinality({i \in 1..Len(seq) : seq[i] = x})

(* All factors handed to the elimination function by entry point e *)
Handed(e) == Flatten(Flatten(elimCalls[e]))

ContainsOrphan(c) == \E f \in Range(clusterTree.cluster[c].factors) : f.kind = "orphan"
OrphanFree == \A c \in Clusters : ~ContainsOrphan(c)

(* Every child of p has finished its post-order step, and the slot of p's *)
(* child-factor list at the child's position holds the child's remaining   *)
(* factor, unless that factor is empty.                                    *)
ChildrenPublished(p) ==
  \A i \in 1..Len(ClusterChildren(p)) :
    /\ visit[ClusterChildren(p)[i]] = "post"
    /\ i <= Len(data[ContextOf(p)].childFactors)
    /\ ~Produced(Current, ClusterChildren(p)[i]).second.empty =>
         data[ContextOf(p)].childFactors[i] = Produced(Current, ClusterChildren(p)[i]).second

PostOrderStarts(c) == visit[c] = "pre" /\ visit'[c] \in {"post", "failed"}

(* C1: in every step in which the post-order step of a cluster runs, all   *)
(* its children have finished theirs and their non-empty remaining factors *)
(* are in the cluster's child-factor slots; and in every step in which an  *)
(* entry point merges the roots container's slots and returns, the same    *)
(* holds of the forest roots.                                              *)
C1_ParentAfterChildren ==
  [][/\ \A c \in Clusters : PostOrderStarts(c) => ChildrenPublished(c)
     /\ (Running /\ outcome'[pc] = "returned") => ChildrenPublished(0)]_vars

(* A cluster whose two children ran as concurrent workers has ended its *)
(* post-order step with both their remaining factors in its slots.      *)
C1_Witness ==
  \E c \in Clusters :
    /\ visit[c] = "post"
    /\ Len(ClusterChildren(c)) = 2
    /\ Concurrent(c)
    /\ \A i \in 1..2 : ~Produced(Current, ClusterChildren(c)[i]).second.empty

(* C2: after an entry point has returned, every factor attached to a      *)
(* cluster was handed to the elimination function once, in the one call   *)
(* for its cluster; every non-empty remaining factor a cluster produced   *)
(* was handed on once, in the call for its parent, or for a forest root   *)
(* is once among the returned factors; every remaining factor of the      *)
(* forest is once among the returned factors; and nothing else was handed *)
(* on or returned.                                                        *)
IsInput(e, f) ==
  \/ \E c \in Clusters : f \in Range(clusterTree.cluster[c].factors)
  \/ f \in Range(clusterTree.remainingFactors_)
  \/ \E c \in Clusters : f = Produced(e, c).second /\ ~f.empty

Conserved(e) ==
  /\ \A c \in Clusters : Len(elimCalls[e][c]) = 1
  /\ \A c \in Clusters : \A f \in Range(clusterTree.cluster[c].factors) :
       /\ Count(f, elimCalls[e][c][1]) = 1
       /\ Count(f, Handed(e)) = 1
       /\ Count(f, returned[e]) = 0
  /\ \A c \in Clusters :
       ~Produced(e, c).second.empty =>
         IF ParentOf(c) = 0
           THEN /\ Count(Produced(e, c).second, returned[e]) = 1
                /\ Count(Produced(e, c).second, Handed(e)) = 0
           ELSE /\ Count(Produced(e, c).second, elimCalls[e][ParentOf(c)][1]) = 1
                /\ Count(Produced(e, c).second, Handed(e)) = 1
                /\ Count(Produced(e, c).second, returned[e]) = 0
  /\ \A f \in Range(clusterTree.remainingFactors_) :
       Count(f, returned[e]) = 1 /\ Count(f, Handed(e)) = 0
  /\ \A f \in Range(Handed(e)) \cup Range(returned[e]) : IsInput(e, f)

C2_FactorConservation ==
  \A e \in {"eliminate", "eliminateInPlace"} : outcome[e] = "returned" => Conserved(e)

(* eliminate has returned for a forest in which a child handed a factor *)
(* to its parent, a root handed one to the caller, and an orphan        *)
(* wrapper was among the factors.                                       *)
C2_Witness ==
  /\ outcome.eliminate = "returned"
  /\ ~OrphanFree
  /\ \E c \in Clusters : ParentOf(c) # 0 /\ ~Produced("eliminate", c).second.empty
  /\ \E c \in Clusters : ParentOf(c) = 0 /\ ~Produced("eliminate", c).second.empty
(* The cliques eliminate allocated for clusters *)
NewCliques == {q \in DOMAIN nodes : q[1] = "new"}

Frontals(q) == nodes[q].conditional_.frontals_

(* C3: after eliminate has returned, the frontal variables of the         *)
(* conditionals of the new cliques are together the keys of all clusters, *)
(* and no variable is frontal twice, in one clique or in two.             *)
C3_VariableConservation ==
  outcome.eliminate = "returned" =>
    /\ UNION {Range(Frontals(q)) : q \in NewCliques}
         = UNION {Range(clusterTree.cluster[c].keys) : c \in Clusters}
    /\ \A q \in NewCliques : Cardinality(Range(Frontals(q))) = Len(Frontals(q))
    /\ \A q1, q2 \in NewCliques : q1 # q2 => Range(Frontals(q1)) \cap Range(Frontals(q2)) = {}

(* eliminate has returned for a forest of a root with a child *)
C3_Witness ==
  /\ outcome.eliminate = "returned"
  /\ \E c \in Clusters : ParentOf(c) # 0
  /\ \A c \in Clusters : Frontals(NewNode(c)) = clusterTree.cluster[c].keys

(* The cliques of the orphan wrappers among the factors of cluster c *)
OrphanCliques(c) ==
  [i \in 1..Len(SelectSeq(clusterTree.cluster[c].factors, IsOrphanWrapper)) |->
     WrappedClique(SelectSeq(clusterTree.cluster[c].factors, IsOrphanWrapper)[i])]

NewNodes(cs) == [i \in 1..Len(cs) |-> NewNode(cs[i])]

(* C4: after eliminate has returned there is one new clique per cluster,  *)
(* holding the conditional on the cluster's keys; the roots of the result *)
(* are the cliques of the forest roots in their order; the children of a  *)
(* cluster's clique that are no orphans are the cliques of the cluster's  *)
(* children in their order, and the orphans of the cluster's factors are  *)
(* the other children.                                                    *)
C4_ShapePreservation ==
  outcome.eliminate = "returned" =>
    /\ NewCliques = {NewNode(c) : c \in Clusters}
    /\ \A c \in Clusters : Frontals(NewNode(c)) = clusterTree.cluster[c].keys
    /\ result.roots_ = NewNodes(clusterTree.roots_)
    /\ \A c \in Clusters :
         /\ SelectSeq(nodes[NewNode(c)].children, LAMBDA q : q[1] = "new")
              = NewNodes(clusterTree.cluster[c].children)
         /\ SelectSeq(nodes[NewNode(c)].children, LAMBDA q : q[1] # "new") = OrphanCliques(c)

(* eliminate has returned a tree in which a clique has two children from *)
(* clusters and an orphan                                                *)
C4_Witness ==
  /\ outcome.eliminate = "returned"
  /\ \E c \in Clusters :
       /\ Len(clusterTree.cluster[c].children) = 2
       /\ Len(nodes[NewNode(c)].children) = 3
(* The cliques q1 and q2 and those below them, position by position, hold *)
(* the same conditionals                                                  *)
RECURSIVE SameContents(_, _)
SameContents(q1, q2) ==
  /\ nodes[q1].conditional_ = nodes[q2].conditional_
  /\ Len(nodes[q1].children) = Len(nodes[q2].children)
  /\ \A i \in 1..Len(nodes[q1].children) :
       SameContents(nodes[q1].children[i], nodes[q2].children[i])

(* C5: for a forest without orphans, once eliminate and eliminateInPlace  *)
(* have both returned, the tree eliminate made and the tree               *)
(* eliminateInPlace worked on hold the same conditional at every position,*)
(* and the two calls returned the same remaining factors.                 *)
C5_InPlaceEquivalence ==
  (OrphanFree /\ outcome.eliminate = "returned" /\ outcome.eliminateInPlace = "returned") =>
    /\ Len(result.roots_) = Len(bayesTree.roots_)
    /\ \A i \in 1..Len(result.roots_) : SameContents(result.roots_[i], bayesTree.roots_[i])
    /\ returned.eliminate = returned.eliminateInPlace

(* Both calls have returned for a root with two children, one of which *)
(* handed a factor up; the existing cliques held other conditionals    *)
(* when eliminateInPlace was called.                                   *)
C5_Witness ==
  /\ OrphanFree /\ outcome.eliminate = "returned" /\ outcome.eliminateInPlace = "returned"
  /\ \E c \in Clusters :
       /\ Len(ClusterChildren(c)) = 2
       /\ \E d \in Range(ClusterChildren(c)) : ~Produced("eliminateInPlace", d).second.empty
  /\ \A c \in Clusters :
       /\ OldNode(c) \in DOMAIN atCall
       /\ atCall[OldNode(c)].conditional_ # nodes[OldNode(c)].conditional_

(* The post-order visitor of eliminateInPlace has run for cluster c *)
ReachedInPlace(c) ==
  Current = "eliminateInPlace" /\ visit[c] \in {"post", "failed"}

(* The original C6: when the post-order visitor of eliminateInPlace has   *)
(* run for a cluster with an orphan wrapper among its factors, the visit  *)
(* failed with the RuntimeErrorThreadsafe, the elimination function was   *)
(* not called for the cluster, and the cluster's clique is as it was when *)
(* eliminateInPlace was called.                                           *)
C6_OrphanLeavesCliqueUntouched ==
  \A c \in Clusters :
    (ReachedInPlace(c) /\ ContainsOrphan(c)) =>
      /\ visit[c] = "failed"
      /\ exception # Null /\ exception[1] = "RuntimeErrorThreadsafe"
      /\ outcome.eliminateInPlace # "returned"
      /\ elimCalls.eliminateInPlace[c] = <<>>
      /\ nodes[data[DataOf(c)].bayesTreeNode] = atCall[data[DataOf(c)].bayesTreeNode]

(* C6, the part that holds: the visit failed with the                    *)
(* RuntimeErrorThreadsafe, the elimination function was not called for   *)
(* the cluster, and the cluster's clique has the conditional, the parent *)
(* and the children it had when eliminateInPlace was called; its         *)
(* problemSize_ is what the pre-order visitor wrote over it.             *)
C6_OrphanLeavesConditional ==
  \A c \in Clusters :
    (ReachedInPlace(c) /\ ContainsOrphan(c)) =>
      /\ visit[c] = "failed"
      /\ exception # Null /\ exception[1] = "RuntimeErrorThreadsafe"
      /\ outcome.eliminateInPlace # "returned"
      /\ elimCalls.eliminateInPlace[c] = <<>>
      /\ nodes[data[DataOf(c)].bayesTreeNode].conditional_
           = atCall[data[DataOf(c)].bayesTreeNode].conditional_
      /\ nodes[data[DataOf(c)].bayesTreeNode].parent_
           = atCall[data[DataOf(c)].bayesTreeNode].parent_
      /\ nodes[data[DataOf(c)].bayesTreeNode].children
           = atCall[data[DataOf(c)].bayesTreeNode].children

(* eliminateInPlace has thrown at a cluster with an orphan wrapper whose *)
(* child had been eliminated into its clique                             *)
C6_Witness ==
  \E c \in Clusters :
    /\ ReachedInPlace(c) /\ ContainsOrphan(c)
    /\ outcome.eliminateInPlace = "threw"
    /\ \E d \in Range(ClusterChildren(c)) :
         nodes[data[DataOf(d)].bayesTreeNode].conditional_ = Produced("eliminateInPlace", d).first
    /\ nodes[data[DataOf(c)].bayesTreeNode].problemSize_
         # atCall[data[DataOf(c)].bayesTreeNode].problemSize_

(* C7, as claimed: eliminateInPlace never reads a children vector out of *)
(* range; a tree that lacks the clique of a cluster makes the call end   *)
(* with an exception.                                                    *)
C7_MismatchThrows ==
  /\ ~outOfRange
  /\ outcome.eliminateInPlace \notin {"crashed", "undefined"}
  /\ \A c \in Clusters :
       (pc = "eliminateInPlace" /\ CanPreOrder(c)) =>
         ChildrenInRange(Mem(data, nodes), DataOf(ParentOf(c)))

(* The slot of the parent's child-factor list at the position of c *)
SlotAt(c) ==
  data[ContextOf(ParentOf(c))].childFactors[IndexIn(ClusterChildren(ParentOf(c)), c)]

CliqueOf(c) == data[DataOf(c)].bayesTreeNode

(* The elimination function was called for c and threw *)
EliminationFailed(c) == visit[c] = "failed" /\ Len(elimCalls[Current][c]) > 0

(* C8: when the elimination function has thrown for a cluster, the         *)
(* exception in flight is the one a failed elimination threw and the call  *)
(* has not returned; the cluster's slot in its parent's child-factor list  *)
(* is null and its clique holds no elimination result; and every cluster   *)
(* whose post-order step completed still has its conditional in its clique *)
(* and its remaining factor, when not empty, in its slot.                  *)
C8_FailureIsolation ==
  \A c \in Clusters :
    EliminationFailed(c) =>
      /\ exception # Null /\ exception[1] = "EliminationError"
      /\ EliminationFailed(exception[2])
      /\ outcome[Current] \in {"none", "threw"}
      /\ SlotAt(c) = NullFactor
      /\ nodes[CliqueOf(c)].conditional_ =
           IF CliqueOf(c) \in DOMAIN atCall THEN atCall[CliqueOf(c)].conditional_
           ELSE NullConditional
      /\ \A d \in Clusters :
           visit[d] = "post" =>
             /\ nodes[CliqueOf(d)].conditional_ = Produced(Current, d).first
             /\ SlotAt(d) = IF Produced(Current, d).second.empty THEN NullFactor
                            ELSE Produced(Current, d).second

(* The elimination function threw for the first of two siblings, and the *)
(* second completed after that and published its remaining factor        *)
C8_Witness ==
  \E c, d \in Clusters :
    /\ c < d /\ ParentOf(c) = ParentOf(d)
    /\ EliminationFailed(c)
    /\ visit[d] = "post" /\ SlotAt(d) # NullFactor
    /\ outcome[Current] = "threw"

(* C9: once the post-order step of a cluster has failed, none of its     *)
(* ancestors has run its post-order step, the call has not returned and  *)
(* has given back neither roots nor remaining factors, and when it has   *)
(* thrown, the exception is that of a failed cluster; the elimination    *)
(* function is called at most once for a cluster.                        *)
C9_AbortOnFailure ==
  /\ \A c \in Clusters : Len(elimCalls[Current][c]) <= 1
  /\ \A c \in Clusters :
       visit[c] = "failed" =>
         /\ \A a \in Ancestors(c) : visit[a] = "pre"
         /\ outcome[Current] # "returned"
         /\ returned[Current] = <<>>
         /\ Current = "eliminate" => result.roots_ = <<>>
         /\ exception # Null /\ visit[exception[2]] = "failed"

(* A cluster below the root failed, its sibling completed, and the call *)
(* has ended by throwing                                                *)
C9_Witness ==
  \E c, d \in Clusters :
    /\ c # d /\ ParentOf(c) = ParentOf(d) /\ ParentOf(c) # 0
    /\ visit[c] = "failed" /\ visit[d] = "post"
    /\ pc = "idle" /\ outcome[Current] = "threw"

(* The cliques of the tree eliminate returned *)
RECURSIVE Below(_)
Below(S) ==
  IF S \cup UNION {Range(nodes[q].children) : q \in S} = S THEN S
  ELSE Below(S \cup UNION {Range(nodes[q].children) : q \in S})

ResultCliques == Below(Range(result.roots_))

(* C10: after eliminate has returned, no root of the result has a parent *)
(* or is a child in the tree, and every other clique of the tree is once *)
(* in the children of one clique of the tree, which is its parent_.      *)
C10_WellFormedTree ==
  outcome.eliminate = "returned" =>
    /\ \A r \in Range(result.roots_) :
         /\ nodes[r].parent_ = Null
         /\ Count(r, result.roots_) = 1
         /\ \A h \in ResultCliques : r \notin Range(nodes[h].children)
    /\ \A q \in ResultCliques \ Range(result.roots_) :
         /\ Cardinality({h \in ResultCliques : q \in Range(nodes[h].children)}) = 1
         /\ nodes[q].parent_ \in ResultCliques
         /\ Count(q, nodes[nodes[q].parent_].children) = 1

(* eliminate has returned a tree of two roots in which a clique below a *)
(* root has an orphan subtree attached                                  *)
C10_Witness ==
  /\ outcome.eliminate = "returned"
  /\ Len(result.roots_) = 2
  /\ \E c \in Clusters :
       /\ ParentOf(c) # 0
       /\ \E k \in 1..MaxOrphans :
            /\ nodes[OrphanNode(k)].parent_ = NewNode(c)
            /\ OrphanChild(k) \in ResultCliques
(* The remaining factors of the forest roots as the elimination function *)
(* returned them to entry point e, those that are not empty, in the      *)
(* order of the roots                                                    *)
RootLeftovers(e) ==
  LET all == [i \in 1..Len(clusterTree.roots_) |-> Produced(e, clusterTree.roots_[i]).second]
  IN SelectSeq(all, LAMBDA f : ~f.empty)

(* C11: an entry point that has returned gave back the forest's           *)
(* remainingFactors_ followed by the non-empty remaining factors of the   *)
(* roots, which are the non-null slots of the roots container; a null     *)
(* slot adds nothing.                                                     *)
C11_ReturnedRemainingFactors ==
  /\ \A e \in {"eliminate", "eliminateInPlace"} :
       outcome[e] = "returned" =>
         /\ returned[e] = clusterTree.remainingFactors_ \o RootLeftovers(e)
         /\ NullFactor \notin Range(returned[e])
  /\ outcome[Current] = "returned" =>
       /\ Len(returned[Current]) = Len(clusterTree.remainingFactors_)
            + Cardinality({i \in 1..Len(data[RootsContainer].childFactors) :
                             data[RootsContainer].childFactors[i] # NullFactor})
       /\ \A i \in 1..Len(data[RootsContainer].childFactors) :
            data[RootsContainer].childFactors[i] # NullFactor =>
              data[RootsContainer].childFactors[i] \in Range(returned[Current])

(* eliminate has returned for two roots, the first of which left a null *)
(* slot and the second a remaining factor                               *)
C11_Witness ==
  /\ outcome.eliminate = "returned" /\ Current = "eliminate"
  /\ Len(clusterTree.roots_) = 2
  /\ data[RootsContainer].childFactors[1] = NullFactor
  /\ data[RootsContainer].childFactors[2] # NullFactor
  /\ Len(returned.eliminate) = 2

(* The orphan subtrees wrapped in the factors of cluster c *)
OrphansAt(c) ==
  {k \in 1..MaxOrphans : OrphanWrapper(k) \in Range(clusterTree.cluster[c].factors)}

(* C12: after the post-order step of eliminate for a cluster, every orphan *)
(* subtree wrapped in the cluster's factors is once among the children of  *)
(* the cluster's new clique, its root's parent_ is that clique, and nothing*)
(* else of the subtree has changed: its cliques hold the conditionals and  *)
(* children they had.  The elimination function is called for clusters    *)
(* only, never with the variables of a clique of an orphan subtree.        *)
C12_OrphanIdempotence ==
  /\ \A c \in Clusters : \A k \in OrphansAt(c) :
       (outcome.eliminate = "returned" \/ (pc = "eliminate" /\ visit[c] = "post")) =>
         /\ Count(OrphanNode(k), nodes[NewNode(c)].children) = 1
         /\ nodes[OrphanNode(k)] = [OrphanHeap[OrphanNode(k)] EXCEPT !.parent_ = NewNode(c)]
         /\ nodes[OrphanChild(k)] = OrphanHeap[OrphanChild(k)]
  /\ \A order \in DOMAIN function : \E c \in Clusters : order = clusterTree.cluster[c].keys
  /\ \A e \in {"eliminate", "eliminateInPlace"} : \A c \in Clusters :
       Len(elimCalls[e][c]) <= 1

(* eliminate has returned a tree in which the orphan subtree hangs below *)
(* the clique of a cluster without child clusters                        *)
C12_Witness ==
  /\ outcome.eliminate = "returned"
  /\ \E c \in Clusters : \E k \in OrphansAt(c) :
       /\ ClusterChildren(c) = <<>>
       /\ nodes[NewNode(c)].children = <<OrphanNode(k)>>
       /\ nodes[OrphanNode(k)].parent_ = NewNode(c)

ChildLeftovers(e, c) ==
  LET all == [i \in 1..Len(ClusterChildren(c)) |-> Produced(e, ClusterChildren(c)[i]).second]
  IN SelectSeq(all, LAMBDA f : ~f.empty)

(* C14: every call of the elimination function for a cluster was handed  *)
(* the cluster's own factors followed by the non-empty remaining factors *)
(* of its children in their order, with no null entry, and the ordering  *)
(* handed is the cluster's keys as stored, which the conditional put in  *)
(* the clique has as its frontals.                                       *)
C14_GatheredFactorsAndOrder ==
  /\ \A e \in {"eliminate", "eliminateInPlace"} : \A c \in Clusters :
       \A k \in 1..Len(elimCalls[e][c]) :
         /\ elimCalls[e][c][k] = clusterTree.cluster[c].factors \o ChildLeftovers(e, c)
         /\ NullFactor \notin Range(elimCalls[e][c][k])
  /\ \A c \in Clusters :
       (Running /\ visit[c] = "post") =>
         /\ nodes[CliqueOf(c)].conditional_.frontals_ = clusterTree.cluster[c].keys
         /\ nodes[CliqueOf(c)].conditional_.factors = elimCalls[pc][c][1]

(* A cluster with two children was eliminated with the remaining factor *)
(* of one child; the other child left a null slot                       *)
C14_Witness ==
  \E c \in Clusters :
    /\ Len(ClusterChildren(c)) = 2
    /\ pc = "eliminate" /\ visit[c] = "post"
    /\ data[DataOf(c)].childFactors[1] = NullFactor
    /\ data[DataOf(c)].childFactors[2] # NullFactor
    /\ Len(elimCalls.eliminate[c][1]) = Len(clusterTree.cluster[c].factors) + 1

(* The step is the post-order step of c, and the elimination returned *)
PostOrderEnds(c) == visit[c] = "pre" /\ visit'[c] = "post"

(* What the elimination function has returned for c by the end of the step *)
ProducedNext(c) ==
  Eliminate(function', elimCalls'[pc][c][Len(elimCalls'[pc][c])], clusterTree.cluster[c].keys)

(* C15: the post-order step of a cluster puts the conditional in the      *)
(* cluster's clique, finds the cluster's slot in the parent context null, *)
(* leaves it null when the remaining factor is empty and puts the factor  *)
(* there otherwise, and changes nothing else in any context; the parent   *)
(* context of a root is the roots container, and a factor in its slot is  *)
(* among the remaining factors the entry point returns.                   *)
C15_PostOrderPublishes ==
  [][ /\ \A c \in Clusters :
           PostOrderEnds(c) =>
             /\ nodes'[CliqueOf(c)].conditional_ = ProducedNext(c).first
             /\ SlotAt(c) = NullFactor
             /\ data' = [data EXCEPT
                  ![ContextOf(ParentOf(c))].childFactors[IndexIn(ClusterChildren(ParentOf(c)), c)] =
                     IF ProducedNext(c).second.empty THEN NullFactor
                     ELSE ProducedNext(c).second]
             /\ ParentOf(c) = 0 => data[DataOf(c)].parentData = RootsContainer
      /\ (Running /\ outcome'[pc] = "returned") =>
           \A r \in Range(clusterTree.roots_) :
             SlotAt(r) # NullFactor =>
               /\ SlotAt(r) = Produced(pc, r).second
               /\ Count(SlotAt(r), returned'[pc]) = 1
    ]_vars

(* A root has published its remaining factor in the roots container, and *)
(* a cluster below a root has left its slot null                         *)
C15_Witness ==
  /\ pc = "eliminate"
  /\ \E r \in Range(clusterTree.roots_) : visit[r] = "post" /\ SlotAt(r) # NullFactor
  /\ \E d \in Clusters :
       /\ ParentOf(d) # 0 /\ visit[d] = "post" /\ SlotAt(d) = NullFactor
       /\ nodes[NewNode(d)].conditional_ = Produced("eliminate", d).first

(* The step constructs the context of c *)
PreOrderEnds(c) == visit[c] = "unvisited" /\ visit'[c] = "pre"

(* The slots and indices of the contexts of the running traversal *)
SlotBookkeeping ==
  RootsContainer \in DOMAIN data =>
    /\ \A c \in Clusters :
         visit[c] # "unvisited" =>
           /\ data[DataOf(c)].myIndexInParent + 1 = IndexIn(ClusterChildren(ParentOf(c)), c)
           /\ data[DataOf(c)].myIndexInParent < Len(data[ContextOf(ParentOf(c))].childFactors)
           /\ Len(data[DataOf(c)].childFactors) =
                Cardinality({d \in Range(ClusterChildren(c)) : visit[d] # "unvisited"})
           /\ (visit[c] \in {"post", "failed"} \/ (Running /\ CanPostOrder(c))) =>
                Len(data[DataOf(c)].childFactors) = Len(ClusterChildren(c))
    /\ Len(data[RootsContainer].childFactors) =
         Cardinality({d \in Range(clusterTree.roots_) : visit[d] # "unvisited"})

(* C16: in eliminate and in eliminateInPlace, the construction of a       *)
(* context appends one null slot to the parent context's childFactors and *)
(* takes that slot's position as myIndexInParent; so the index of every   *)
(* context is its cluster's position among the siblings, inside the       *)
(* parent's list, and a cluster whose post-order step runs has as many    *)
(* slots as children.                                                     *)
C16_SlotBookkeeping ==
  [][ /\ \A c \in Clusters :
           PreOrderEnds(c) =>
             /\ data'[ContextOf(ParentOf(c))].childFactors =
                  Append(data[ContextOf(ParentOf(c))].childFactors, NullFactor)
             /\ data'[DataOf(c)].myIndexInParent = Len(data[ContextOf(ParentOf(c))].childFactors)
             /\ data'[DataOf(c)].parentData = ContextOf(ParentOf(c))
             /\ data'[DataOf(c)].childFactors = <<>>
      /\ SlotBookkeeping'
    ]_vars

(* eliminateInPlace has run the post-order step of a cluster with two *)
(* children, whose contexts hold the indices 0 and 1                  *)
C16_Witness ==
  /\ pc = "eliminateInPlace"
  /\ \E c \in Clusters :
       /\ visit[c] = "post"
       /\ Len(data[DataOf(c)].childFactors) = 2
       /\ data[DataOf(ClusterChildren(c)[1])].myIndexInParent = 0
       /\ data[DataOf(ClusterChildren(c)[2])].myIndexInParent = 1
(* The frontal variables of the cliques of the orphan subtrees *)
OrphanFrontals ==
  UNION {Range(OldFrontals(OrphanNode(k))) \cup Range(OldFrontals(OrphanChild(k))) :
           k \in 1..MaxOrphans}

(* C17: after eliminate has returned, the nodes index of the result maps *)
(* every frontal variable of every new clique to that clique, has no     *)
(* other entry, and so none for a variable that is frontal only in a     *)
(* clique of an orphan subtree.                                          *)
C17_NodesIndex ==
  outcome.eliminate = "returned" =>
    /\ \A q \in NewCliques : \A j \in Range(Frontals(q)) :
         j \in DOMAIN result.nodes_ /\ result.nodes_[j] = q
    /\ DOMAIN result.nodes_ = UNION {Range(Frontals(q)) : q \in NewCliques}
    /\ DOMAIN result.nodes_ \cap OrphanFrontals = {}
    /\ \A c \in Clusters : \A j \in Range(clusterTree.cluster[c].keys) :
         result.nodes_[j] = NewNode(c)

(* eliminate has returned a tree of several cliques with an orphan *)
(* subtree in it                                                   *)
C17_Witness ==
  /\ outcome.eliminate = "returned"
  /\ Cardinality(NewCliques) >= 2
  /\ \E k \in 1..MaxOrphans : nodes[OrphanNode(k)].parent_ \in NewCliques
  /\ \A k \in 1..MaxOrphans : \A j \in Range(Frontals(OrphanNode(k))) :
       j \notin DOMAIN result.nodes_

(* What a visitor writes: an object and the part of it, 0 for the whole *)
Write(kind, obj, part) == [kind |-> kind, obj |-> obj, part |-> part]

(* The writes of the pre-order step of c: push_back on the parent's      *)
(* childFactors (lines 46, 82), on the parent clique's children and the  *)
(* new clique (lines 42-55), problemSize_ of the clique (line 99).  What *)
(* is written through the pointer an out-of-range read gave is not a     *)
(* write to a known object and is left out.                              *)
PreOrderWrites(c) ==
  {Write("childFactors", ContextOf(ParentOf(c)), 0)} \cup
  (IF pc = "eliminate"
     THEN {Write("clique", data[ContextOf(ParentOf(c))].bayesTreeNode, 0),
           Write("clique", NewNode(c), 0)}
   ELSE IF ChildrenInRange(Mem(data, nodes), ContextOf(ParentOf(c)))
     THEN {Write("clique", ChildrenAt(Mem(data, nodes), ContextOf(ParentOf(c))), 0)}
   ELSE {})

(* The writes of the post-order step of c: the clique (line 128, 162),  *)
(* the slot in the parent (line 132), the orphans' parent_ (line 163),  *)
(* the entries of the nodes index (line 170)                            *)
PostOrderWrites(c) ==
  {Write("clique", data[DataOf(c)].bayesTreeNode, 0),
   Write("childFactors", data[DataOf(c)].parentData, data[DataOf(c)].myIndexInParent + 1)} \cup
  (IF pc = "eliminate"
     THEN {Write("clique", OrphanNode(k), 0) : k \in OrphansAt(c)} \cup
          {Write("nodesIndex", <<"key", j>>, 0) : j \in Range(clusterTree.cluster[c].keys)}
   ELSE {})

WritesOf(c) ==
  IF CanPreOrder(c) THEN PreOrderWrites(c)
  ELSE IF CanPostOrder(c) THEN PostOrderWrites(c)
  ELSE {}

Conflict(w1, w2) ==
  /\ w1.kind = w2.kind /\ w1.obj = w2.obj
  /\ w1.part = w2.part \/ w1.part = 0 \/ w2.part = 0

(* C18: whenever the visitors of two clusters can both run next, which is *)
(* when two workers may run them at the same time, they write no common   *)
(* slot of a childFactors list, no common key of the nodes index and no   *)
(* common clique.                                                         *)
C18_RaceFreedom ==
  Running =>
    \A c, d \in Clusters :
      c # d => \A w1 \in WritesOf(c), w2 \in WritesOf(d) : ~Conflict(w1, w2)

(* Two siblings below a cluster can both run their post-order step in *)
(* eliminate, and one of them attaches an orphan subtree              *)
C18_Witness ==
  /\ pc = "eliminate"
  /\ \E c, d \in Clusters :
       /\ c # d /\ ParentOf(c) = ParentOf(d) /\ ParentOf(c) # 0
       /\ CanPostOrder(c) /\ CanPostOrder(d)
       /\ OrphansAt(c) # {}

(* C19: in eliminate, once the pre-order step of a cluster has run, its   *)
(* new clique has the parent's new clique as parent_ (none for a root)    *)
(* and is once among the children of the parent's clique (the dummy       *)
(* clique for a root); and when the post-order step of a cluster can run, *)
(* the children of its clique are the cliques of its child clusters in    *)
(* their order and nothing else, no orphan being attached to it.          *)
C19_LinkedInPreOrder ==
  pc = "eliminate" =>
    /\ \A c \in Clusters :
         visit[c] # "unvisited" =>
           /\ nodes[NewNode(c)].parent_ =
                IF ParentOf(c) = 0 THEN Null ELSE NewNode(ParentOf(c))
           /\ Count(NewNode(c),
                    nodes[IF ParentOf(c) = 0 THEN DummyNode
                          ELSE NewNode(ParentOf(c))].children) = 1
    /\ \A c \in Clusters :
         CanPostOrder(c) =>
           /\ nodes[NewNode(c)].children = NewNodes(ClusterChildren(c))
           /\ \A k \in OrphansAt(c) : nodes[OrphanNode(k)].parent_ = Null
           /\ nodes[NewNode(c)].conditional_ = NullConditional

(* The post-order step of a cluster with two children and an orphan *)
(* wrapper can run in eliminate                                     *)
C19_Witness ==
  /\ pc = "eliminate"
  /\ \E c \in Clusters :
       /\ CanPostOrder(c)
       /\ Len(ClusterChildren(c)) = 2
       /\ OrphansAt(c) # {}
       /\ Len(nodes[NewNode(c)].children) = 2

(* What a sequential depth-first walk gets from the elimination function *)
(* for cluster c: the children are eliminated first, in their order      *)
RECURSIVE SequentialResult(_)
SequentialResult(c) ==
  LET below == [i \in 1..Len(ClusterChildren(c)) |->
                  SequentialResult(ClusterChildren(c)[i]).second]
  IN Eliminate(function,
               clusterTree.cluster[c].factors \o SelectSeq(below, LAMBDA f : ~f.empty),
               clusterTree.cluster[c].keys)

SequentialRemaining ==
  LET top == [i \in 1..Len(clusterTree.roots_) |->
                SequentialResult(clusterTree.roots_[i]).second]
  IN clusterTree.remainingFactors_ \o SelectSeq(top, LAMBDA f : ~f.empty)

(* C20: whatever the order in which the visitors of concurrent subtrees   *)
(* ran, eliminate returns what the sequential depth-first walk gives for  *)
(* the same forest and the same elimination function: the roots and the   *)
(* children of every clique in cluster order, the same conditional in     *)
(* every clique, the same nodes index, the same remaining factors in the  *)
(* same order.                                                            *)
C20_SchedulingIndependence ==
  outcome.eliminate = "returned" =>
    /\ result.roots_ = NewNodes(clusterTree.roots_)
    /\ \A c \in Clusters :
         nodes[NewNode(c)] =
           Node(SequentialResult(c).first,
                clusterTree.cluster[c].problemSize_,
                IF ParentOf(c) = 0 THEN Null ELSE NewNode(ParentOf(c)),
                NewNodes(ClusterChildren(c)) \o OrphanCliques(c))
    /\ result.nodes_ =
         [j \in UNION {Range(clusterTree.cluster[c].keys) : c \in Clusters} |->
            NewNode(CHOOSE c \in Clusters : j \in Range(clusterTree.cluster[c].keys))]
    /\ returned.eliminate = SequentialRemaining

(* eliminate has returned for a forest in which two siblings below a   *)
(* cluster ran concurrently and both handed a remaining factor up      *)
C20_Witness ==
  /\ outcome.eliminate = "returned"
  /\ \E c, d \in Clusters :
       /\ c # d /\ ParentOf(c) = ParentOf(d) /\ ParentOf(c) # 0
       /\ Concurrent(ParentOf(c))
       /\ ~Produced("eliminate", c).second.empty
       /\ ~Produced("eliminate", d).second.empty
(* eliminateInPlace runs or ran on the tree eliminate returned *)
InPlaceOnResult == Current = "eliminateInPlace" /\ bayesTree = result

(* C21: in the tree eliminate returned, the child at index i of a        *)
(* cluster's clique is the clique of the cluster's i-th child and the    *)
(* orphan subtrees come after these, and root i is the clique of the     *)
(* i-th root; and when eliminateInPlace is run on that tree for the same *)
(* forest, no children vector is read out of range and the clique every  *)
(* visited cluster's context points to is the clique eliminate made for  *)
(* that cluster, never a clique of an orphan subtree.                    *)
C21_ChildIndexAlignment ==
  /\ outcome.eliminate = "returned" =>
       /\ \A i \in 1..Len(clusterTree.roots_) :
            result.roots_[i] = NewNode(clusterTree.roots_[i])
       /\ \A c \in Clusters :
            /\ Len(nodes[NewNode(c)].children) >= Len(ClusterChildren(c))
            /\ \A i \in 1..Len(nodes[NewNode(c)].children) :
                 IF i <= Len(ClusterChildren(c))
                   THEN nodes[NewNode(c)].children[i] = NewNode(ClusterChildren(c)[i])
                   ELSE nodes[NewNode(c)].children[i][1] = "orphan"
  /\ InPlaceOnResult =>
       /\ ~outOfRange
       /\ outcome.eliminateInPlace \notin {"crashed", "undefined"}
       /\ \A c \in Clusters :
            visit[c] # "unvisited" =>
              /\ data[DataOf(c)].bayesTreeNode = NewNode(c)
              /\ data[DataOf(c)].bayesTreeNode[1] \notin {"orphan", "orphanchild"}

(* eliminateInPlace on the tree eliminate returned has visited a cluster *)
(* and its child, where the clique of the cluster has the child's clique *)
(* and then an orphan subtree as children                                *)
C21_Witness ==
  /\ InPlaceOnResult
  /\ \E c \in Clusters : \E k \in OrphansAt(c) :
       /\ Len(ClusterChildren(c)) = 1
       /\ visit[c] # "unvisited" /\ visit[ClusterChildren(c)[1]] = "post"
       /\ nodes[NewNode(c)].children = <<NewNode(ClusterChildren(c)[1]), OrphanNode(k)>>
       /\ data[DataOf(ClusterChildren(c)[1])].bayesTreeNode = NewNode(ClusterChildren(c)[1])

(* C22: no step of eliminate or of eliminateInPlace, whether the call   *)
(* returns or throws, changes the forest: its roots, the keys, factors, *)
(* children and problem size of every cluster, its remaining factors.   *)
C22_ForestReadOnly ==
  [][ /\ clusterTree'.roots_ = clusterTree.roots_
      /\ clusterTree'.remainingFactors_ = clusterTree.remainingFactors_
      /\ DOMAIN clusterTree'.cluster = DOMAIN clusterTree.cluster
      /\ \A c \in Clusters :
           /\ clusterTree'.cluster[c].keys = clusterTree.cluster[c].keys
           /\ clusterTree'.cluster[c].factors = clusterTree.cluster[c].factors
           /\ clusterTree'.cluster[c].children = clusterTree.cluster[c].children
           /\ clusterTree'.cluster[c].problemSize_ = clusterTree.cluster[c].problemSize_
    ]_vars

(* eliminate has returned and eliminateInPlace has thrown, for a forest *)
(* of several clusters with an orphan wrapper                           *)
C22_Witness ==
  /\ outcome.eliminate = "returned"
  /\ outcome.eliminateInPlace = "threw"
  /\ Cardinality(Clusters) >= 2
  /\ ~OrphanFree
  /\ clusterTree.remainingFactors_ # <<>>
====
